---- MODULE Spec2Model ----
(***************************************************************************)
(* Model of ghm (github-management): the RepoSettings snapshot, the        *)
(* single-repository reconcile update_repo_settings, the batch             *)
(* bulk_update_repos and the update-merge command around them.             *)
(*                                                                         *)
(* The GitHub service is the variable `remote`: one raw repository record  *)
(* per full name.  Every network round trip (get_repo, Repository.edit,    *)
(* the listing) is one step of the model and may fail.                     *)
(***************************************************************************)
EXTENDS Integers, Sequences, FiniteSets, TLC

\* ------------------------------------------------------------------ bounds
\* Longest list of snapshots handed to bulk_update_repos.
MaxLen == 3
\* Direct calls of update_repo_settings made one after the other.
MaxRuns == 2

\* ------------------------------------------------------------------ values
\* Python's None.
None == "<None>"

\* What a current format field of a repository can hold (Optional[str]).
CurrentValues == {None, "PR_TITLE", "PR_BODY"}

\* Current titles and messages of the repository of the direct calls.
OneTitles == {"PR_TITLE", "PR_BODY"}
OneMessages == {None, "PR_BODY"}

\* A keyword argument left out of a call, so that its default applies.
Omitted == "<omitted>"

\* What a desired field can hold: None (option not given), the empty string
\* (option given empty on the command line), or a format value.
DesiredTitles == {None, "", "PR_TITLE"}
DesiredMessages == {None, "", "PR_BODY"}

\* Python truthiness of an Optional[str]: None and "" are falsy.
Truthy(v) == v # None /\ v # ""

\* The repositories of the service, by full name: organization "o" owns two,
\* user "u" owns one.  ShortName is the part after the slash.
Repos == {"o/a", "o/b", "u/c"}

ShortName(fn) == CASE fn = "o/a" -> "a" [] fn = "o/b" -> "b" [] OTHER -> "c"

\* The keys a ChangeSet can hold.
FormatKeys == {"squash_merge_commit_title", "squash_merge_commit_message",
               "merge_commit_title", "merge_commit_message"}

\* Failure classes of a per-repository call.
ErrorClasses == {"403", "404"}

\* A raw repository record of the service (the attributes from_repo reads).
RawRepo(fn, arch, frk, sq, st, sm, mg, mt, mm, rb) ==
    [name |-> ShortName(fn), full_name |-> fn, archived |-> arch, fork |-> frk,
     allow_squash_merge |-> sq, squash_merge_commit_title |-> st,
     squash_merge_commit_message |-> sm, allow_merge_commit |-> mg,
     merge_commit_title |-> mt, merge_commit_message |-> mm,
     allow_rebase_merge |-> rb]

\* ------------------------------------------------------------ RepoSettings
\* RepoSettings.from_repo: field by field, archived -> is_archived and
\* fork -> is_fork.
from_repo(repo) ==
    [name |-> repo.name,
     full_name |-> repo.full_name,
     is_archived |-> repo.archived,
     is_fork |-> repo.fork,
     allow_squash_merge |-> repo.allow_squash_merge,
     squash_merge_commit_title |-> repo.squash_merge_commit_title,
     squash_merge_commit_message |-> repo.squash_merge_commit_message,
     allow_merge_commit |-> repo.allow_merge_commit,
     merge_commit_title |-> repo.merge_commit_title,
     merge_commit_message |-> repo.merge_commit_message,
     allow_rebase_merge |-> repo.allow_rebase_merge]

\* needs_squash_update with the enabled test dropped.
needs_squash_update_noflag(self, title, message) ==
    \/ self.squash_merge_commit_title # title
    \/ self.squash_merge_commit_message # message

\* RepoSettings.needs_squash_update(title, message).
needs_squash_update(self, title, message) ==
    IF ~self.allow_squash_merge
    THEN FALSE
    ELSE \/ self.squash_merge_commit_title # title
         \/ self.squash_merge_commit_message # message

\* The defaults of needs_squash_update: title="PR_TITLE", message="PR_BODY".
SquashArgs(title, message) ==
    [title |-> IF title = Omitted THEN "PR_TITLE" ELSE title,
     message |-> IF message = Omitted THEN "PR_BODY" ELSE message]

\* The defaults of needs_merge_update: title="PR_TITLE", message="PR_TITLE".
MergeArgs(title, message) ==
    [title |-> IF title = Omitted THEN "PR_TITLE" ELSE title,
     message |-> IF message = Omitted THEN "PR_TITLE" ELSE message]

\* RepoSettings.needs_merge_update(title, message).
needs_merge_update(self, title, message) ==
    IF ~self.allow_merge_commit
    THEN FALSE
    ELSE \/ self.merge_commit_title # title
         \/ self.merge_commit_message # message

\* ------------------------------------------------------------------- state
VARIABLES
    remote,         \* the service: full name -> raw repository record
    desired,        \* the four optional target fields of the invocation
    dry_run,        \* the --dry-run / --apply flag
    repos,          \* the list of snapshots given to bulk_update_repos
    idx,            \* position of the for loop of bulk_update_repos (1-based)
    pc,             \* where the program is
    success_count,  \* bulk_update_repos: success_count
    total_count,    \* bulk_update_repos: total_count
    cur,            \* update_repo_settings: repo_full_name
    settings,       \* update_repo_settings: the re-fetched RepoSettings
    changes,        \* update_repo_settings: the ChangeSet
    result,         \* what update_repo_settings returned last
    raised,         \* the exception in flight, None when there is none
    log,            \* history: one entry per list entry or direct call handled
    fetches,        \* history: full names re-fetched by update_repo_settings
    edits,          \* history: the calls of the write endpoint repo.edit
    runs,           \* direct calls of update_repo_settings made so far
    q,              \* arguments and results of the two needs_*_update queries
    argv,           \* command line: token, target, include_archived, include_forks
    env,            \* process environment: GITHUB_TOKEN and the gh tool's answer
    github_client,  \* the token of the authenticated client, None before it exists
    exit_code,      \* the exit code of the process, None while it runs
    calls           \* history: collaborators the command has called

\* The state of the command around the batch.
cli == <<argv, env, github_client, exit_code, calls>>

vars == <<remote, desired, dry_run, repos, idx, pc, success_count, total_count,
          cur, settings, changes, result, raised, log, fetches, edits, runs, q,
          argv, env, github_client, exit_code, calls>>

\* No query has been evaluated.
NoQuery ==
    [kind |-> "none", args |-> [title |-> None, message |-> None],
     value |-> FALSE]

\* The empty dict.
EmptyDict == [k \in {} |-> None]

\* The desired configuration as a record of the four keyword arguments.
Desired(st, sm, mt, mm) ==
    [squash_title |-> st, squash_message |-> sm,
     merge_title |-> mt, merge_message |-> mm]

\* ------------------------------------------------- update_repo_settings
\* The ChangeSet with the enabled tests dropped.
ChangesOf_noflag(s, d) ==
    (IF Truthy(d.squash_title)
        /\ s.squash_merge_commit_title # d.squash_title
     THEN "squash_merge_commit_title" :> d.squash_title ELSE EmptyDict)
    @@
    (IF Truthy(d.squash_message)
        /\ s.squash_merge_commit_message # d.squash_message
     THEN "squash_merge_commit_message" :> d.squash_message ELSE EmptyDict)
    @@
    (IF Truthy(d.merge_title)
        /\ s.merge_commit_title # d.merge_title
     THEN "merge_commit_title" :> d.merge_title ELSE EmptyDict)
    @@
    (IF Truthy(d.merge_message)
        /\ s.merge_commit_message # d.merge_message
     THEN "merge_commit_message" :> d.merge_message ELSE EmptyDict)

\* The ChangeSet with the comparisons against the current values dropped.
ChangesOf_nodiff(s, d) ==
    (IF Truthy(d.squash_title) /\ s.allow_squash_merge
     THEN "squash_merge_commit_title" :> d.squash_title ELSE EmptyDict)
    @@
    (IF Truthy(d.squash_message) /\ s.allow_squash_merge
     THEN "squash_merge_commit_message" :> d.squash_message ELSE EmptyDict)
    @@
    (IF Truthy(d.merge_title) /\ s.allow_merge_commit
     THEN "merge_commit_title" :> d.merge_title ELSE EmptyDict)
    @@
    (IF Truthy(d.merge_message) /\ s.allow_merge_commit
     THEN "merge_commit_message" :> d.merge_message ELSE EmptyDict)

\* ChangesOf with a disabled method switched on when one of its fields is
\* requested: the payload gets an "allow_..." key.
ChangesOf_enable(s, d) ==
    (IF Truthy(d.squash_title) /\ s.squash_merge_commit_title # d.squash_title
     THEN "squash_merge_commit_title" :> d.squash_title ELSE EmptyDict)
    @@
    (IF Truthy(d.squash_message)
        /\ s.squash_merge_commit_message # d.squash_message
     THEN "squash_merge_commit_message" :> d.squash_message ELSE EmptyDict)
    @@
    (IF (Truthy(d.squash_title) \/ Truthy(d.squash_message))
        /\ ~s.allow_squash_merge
     THEN "allow_squash_merge" :> TRUE ELSE EmptyDict)
    @@
    (IF Truthy(d.merge_title) /\ s.merge_commit_title # d.merge_title
     THEN "merge_commit_title" :> d.merge_title ELSE EmptyDict)
    @@
    (IF Truthy(d.merge_message) /\ s.merge_commit_message # d.merge_message
     THEN "merge_commit_message" :> d.merge_message ELSE EmptyDict)
    @@
    (IF (Truthy(d.merge_title) \/ Truthy(d.merge_message))
        /\ ~s.allow_merge_commit
     THEN "allow_merge_commit" :> TRUE ELSE EmptyDict)

\* The dict `changes` that update_repo_settings builds from the re-fetched
\* settings s and the desired fields d: four independent tests, each adding
\* one key.
ChangesOf(s, d) ==
    (IF Truthy(d.squash_title) /\ s.allow_squash_merge
        /\ s.squash_merge_commit_title # d.squash_title
     THEN "squash_merge_commit_title" :> d.squash_title ELSE EmptyDict)
    @@
    (IF Truthy(d.squash_message) /\ s.allow_squash_merge
        /\ s.squash_merge_commit_message # d.squash_message
     THEN "squash_merge_commit_message" :> d.squash_message ELSE EmptyDict)
    @@
    (IF Truthy(d.merge_title) /\ s.allow_merge_commit
        /\ s.merge_commit_title # d.merge_title
     THEN "merge_commit_title" :> d.merge_title ELSE EmptyDict)
    @@
    (IF Truthy(d.merge_message) /\ s.allow_merge_commit
        /\ s.merge_commit_message # d.merge_message
     THEN "merge_commit_message" :> d.merge_message ELSE EmptyDict)

\* What a successful repo.edit(**changes) leaves on the service: the keys of
\* the payload take the payload's values, every other attribute is kept.
Edited(repo, payload) ==
    [f \in DOMAIN repo |-> IF f \in DOMAIN payload THEN payload[f] ELSE repo[f]]

\* The message update_repo_settings prints for a failed write: a message
\* holding "404" is replaced by the permissions hint.
ErrorMessage(e) ==
    IF e = "404"
    THEN "404 Not Found (Check permissions or if target is an organization)"
    ELSE e

\* A new entry of the history: update_repo_settings has not answered yet.
Entry(fn, o) ==
    [full_name |-> fn, outcome |-> o, result |-> None, changes |-> EmptyDict]

\* The last entry of the history gets its outcome, the value returned and the
\* ChangeSet computed.
Outcome(l, o, r, ch) ==
    [l EXCEPT ![Len(l)] = [full_name |-> @.full_name, outcome |-> o,
                           result |-> r, changes |-> ch]]

\* update_repo_settings, line 297: the re-fetch get_repo raises; nothing
\* catches it inside update_repo_settings or bulk_update_repos.
UpdateFetchRaises ==
    /\ pc = "update"
    /\ \E e \in ErrorClasses : raised' = e
    /\ pc' = "raised"
    /\ fetches' = Append(fetches, [entry |-> Len(log), full_name |-> cur])
    /\ log' = Outcome(log, "raised", None, EmptyDict)
    /\ UNCHANGED <<remote, desired, dry_run, repos, idx, success_count,
                   total_count, cur, settings, changes, result, edits, runs, q>>
    /\ UNCHANGED cli

\* update_repo_settings, lines 297-321: re-fetch, empty ChangeSet, return True.
UpdateNoChange ==
    /\ pc = "update"
    /\ settings' = from_repo(remote[cur])
    /\ changes' = ChangesOf(settings', desired)
    /\ DOMAIN changes' = {}
    /\ result' = TRUE
    /\ pc' = "ret"
    /\ fetches' = Append(fetches, [entry |-> Len(log), full_name |-> cur])
    /\ log' = Outcome(log, "nochange", TRUE, changes')
    /\ UNCHANGED <<remote, desired, dry_run, repos, idx, success_count,
                   total_count, cur, raised, edits, runs, q>>
    /\ UNCHANGED cli

\* update_repo_settings, lines 297-327: re-fetch, non-empty ChangeSet under
\* dry_run, return True without a write.
UpdateDryRun ==
    /\ pc = "update"
    /\ settings' = from_repo(remote[cur])
    /\ changes' = ChangesOf(settings', desired)
    /\ DOMAIN changes' # {}
    /\ dry_run
    /\ result' = TRUE
    /\ pc' = "ret"
    /\ fetches' = Append(fetches, [entry |-> Len(log), full_name |-> cur])
    /\ log' = Outcome(log, "dryrun", TRUE, changes')
    /\ UNCHANGED <<remote, desired, dry_run, repos, idx, success_count,
                   total_count, cur, raised, edits, runs, q>>
    /\ UNCHANGED cli

\* UpdateToEdit with the dry_run test dropped: a dry run goes on to the write.
UpdateToEdit_nodry ==
    /\ pc = "update"
    /\ settings' = from_repo(remote[cur])
    /\ changes' = ChangesOf(settings', desired)
    /\ DOMAIN changes' # {}
    /\ pc' = "edit"
    /\ fetches' = Append(fetches, [entry |-> Len(log), full_name |-> cur])
    /\ UNCHANGED <<remote, desired, dry_run, repos, idx, success_count,
                   total_count, cur, result, raised, log, edits, runs, q>>
    /\ UNCHANGED cli

\* update_repo_settings, lines 297-329: re-fetch, non-empty ChangeSet in apply
\* mode: the write is next.
UpdateToEdit ==
    /\ pc = "update"
    /\ settings' = from_repo(remote[cur])
    /\ changes' = ChangesOf(settings', desired)
    /\ DOMAIN changes' # {}
    /\ ~dry_run
    /\ pc' = "edit"
    /\ fetches' = Append(fetches, [entry |-> Len(log), full_name |-> cur])
    /\ UNCHANGED <<remote, desired, dry_run, repos, idx, success_count,
                   total_count, cur, result, raised, log, edits, runs, q>>
    /\ UNCHANGED cli

\* update_repo_settings, lines 330-332: repo.edit(**changes) succeeds.
EditOk ==
    /\ pc = "edit"
    /\ remote' = [remote EXCEPT ![cur] = Edited(@, changes)]
    /\ edits' = Append(edits, [entry |-> Len(log), full_name |-> cur,
                               payload |-> changes, ok |-> TRUE,
                               message |-> "Updated successfully"])
    /\ result' = TRUE
    /\ pc' = "ret"
    /\ log' = Outcome(log, "updated", TRUE, changes)
    /\ UNCHANGED <<desired, dry_run, repos, idx, success_count, total_count,
                   cur, settings, changes, raised, fetches, runs, q>>
    /\ UNCHANGED cli

\* update_repo_settings, lines 333-340: repo.edit raises, the except clause
\* prints the cause and returns False.
EditFails ==
    /\ pc = "edit"
    /\ \E e \in ErrorClasses :
         edits' = Append(edits, [entry |-> Len(log), full_name |-> cur,
                                 payload |-> changes, ok |-> FALSE,
                                 message |-> ErrorMessage(e)])
    /\ result' = FALSE
    /\ pc' = "ret"
    /\ log' = Outcome(log, "failed", FALSE, changes)
    /\ UNCHANGED <<remote, desired, dry_run, repos, idx, success_count,
                   total_count, cur, settings, changes, raised, fetches, runs, q>>
    /\ UNCHANGED cli

\* ---------------------------------------------------- bulk_update_repos
\* needs_update with the enabled tests dropped.
needs_update_noflag(repo_settings, d) ==
    \/ Truthy(d.squash_title) \/ Truthy(d.squash_message)
    \/ Truthy(d.merge_title) \/ Truthy(d.merge_message)

\* The flag needs_update of one loop iteration, from the snapshot alone.
needs_update(repo_settings, d) ==
    \/ (Truthy(d.squash_title) \/ Truthy(d.squash_message))
       /\ repo_settings.allow_squash_merge
    \/ (Truthy(d.merge_title) \/ Truthy(d.merge_message))
       /\ repo_settings.allow_merge_commit

\* success_count after a call that returned r, counting every call.
Counted_always(n, r) == n + 1

\* success_count after a call that returned r.
Counted(n, r) == IF r THEN n + 1 ELSE n

\* BulkSkip deciding from the repository's state now, not from the snapshot.
BulkSkip_remote ==
    /\ pc = "loop"
    /\ idx <= Len(repos)
    /\ ~needs_update(from_repo(remote[repos[idx].full_name]), desired)
    /\ log' = Append(log, Entry(repos[idx].full_name, "skipped"))
    /\ idx' = idx + 1
    /\ UNCHANGED <<remote, desired, dry_run, repos, pc, success_count,
                   total_count, cur, settings, changes, result, raised,
                   fetches, edits, runs, q>>
    /\ UNCHANGED cli

\* Lines 370-386: the snapshot needs no update, continue.
BulkSkip ==
    /\ pc = "loop"
    /\ idx <= Len(repos)
    /\ ~needs_update(repos[idx], desired)
    /\ log' = Append(log, Entry(repos[idx].full_name, "skipped"))
    /\ idx' = idx + 1
    /\ UNCHANGED <<remote, desired, dry_run, repos, pc, success_count,
                   total_count, cur, settings, changes, result, raised,
                   fetches, edits, runs, q>>
    /\ UNCHANGED cli

\* BulkAttempt with total_count += 1 left out.
BulkAttempt_nocount ==
    /\ pc = "loop"
    /\ idx <= Len(repos)
    /\ needs_update(repos[idx], desired)
    /\ cur' = repos[idx].full_name
    /\ pc' = "update"
    /\ log' = Append(log, Entry(repos[idx].full_name, "attempted"))
    /\ UNCHANGED <<remote, desired, dry_run, repos, idx, success_count,
                   total_count, settings, changes, result, raised, fetches,
                   edits, runs, q>>
    /\ UNCHANGED cli

\* Lines 370-389: the snapshot needs an update: total_count += 1 and
\* update_repo_settings is entered with the snapshot's full name.
BulkAttempt ==
    /\ pc = "loop"
    /\ idx <= Len(repos)
    /\ needs_update(repos[idx], desired)
    /\ total_count' = total_count + 1
    /\ cur' = repos[idx].full_name
    /\ pc' = "update"
    /\ log' = Append(log, Entry(repos[idx].full_name, "attempted"))
    /\ UNCHANGED <<remote, desired, dry_run, repos, idx, success_count,
                   settings, changes, result, raised, fetches, edits, runs, q>>
    /\ UNCHANGED cli

\* Lines 389-398: update_repo_settings returned; count a success and go to
\* the next snapshot.
BulkCount ==
    /\ pc = "ret"
    /\ success_count' = Counted(success_count, result)
    /\ idx' = idx + 1
    /\ pc' = "loop"
    /\ UNCHANGED <<remote, desired, dry_run, repos, total_count, cur, settings,
                   changes, result, raised, log, fetches, edits, runs, q>>
    /\ UNCHANGED cli

\* Line 400: the loop is over, return (success_count, total_count).
BulkReturn ==
    /\ pc = "loop"
    /\ idx > Len(repos)
    /\ pc' = "done"
    /\ UNCHANGED <<remote, desired, dry_run, repos, idx, success_count,
                   total_count, cur, settings, changes, result, raised, log,
                   fetches, edits, runs, q>>
    /\ UNCHANGED cli

\* ------------------------------------------------- the batch, called directly
\* The first state of the model's repositories: both merge methods disabled.
Disabled(fn) ==
    RawRepo(fn, FALSE, FALSE, FALSE, None, None, FALSE, None, None, TRUE)

\* Repository states the batch is run on.
BatchProfiles(fn) ==
    { Disabled(fn),
      RawRepo(fn, FALSE, FALSE, TRUE, "COMMIT_OR_PR_TITLE", "PR_BODY",
              FALSE, None, None, FALSE),
      RawRepo(fn, FALSE, TRUE, FALSE, None, None,
              TRUE, "MERGE_MESSAGE", "PR_TITLE", TRUE),
      RawRepo(fn, FALSE, FALSE, TRUE, "PR_TITLE", "PR_BODY",
              TRUE, "PR_TITLE", "PR_TITLE", TRUE) }

\* Desired configurations the batch is run with.
BatchDesired ==
    { Desired(None, None, None, None),
      Desired("PR_TITLE", "PR_BODY", None, None),
      Desired("PR_TITLE", None, "PR_TITLE", None),
      Desired("", None, None, "PR_TITLE") }

\* The lists of at most n full names.
Lists(n) == UNION { [1..k -> Repos] : k \in 0..n }

\* Nothing has run yet.
Fresh ==
    /\ idx = 1
    /\ success_count = 0
    /\ total_count = 0
    /\ cur = None
    /\ settings = None
    /\ changes = EmptyDict
    /\ result = None
    /\ raised = None
    /\ log = <<>>
    /\ fetches = <<>>
    /\ edits = <<>>
    /\ runs = 0
    /\ q = NoQuery

\* No command is running: the functions are called directly.
NoCommand ==
    /\ argv = None
    /\ env = None
    /\ github_client = None
    /\ exit_code = None
    /\ calls = {}

\* bulk_update_repos is called with a list of snapshots taken from the
\* service; a repository the list does not name is in its first state.
Init ==
    /\ \E names \in Lists(MaxLen) :
         /\ remote \in [Repos -> UNION { BatchProfiles(fn) : fn \in Repos }]
         /\ \A fn \in Repos :
              /\ remote[fn] \in BatchProfiles(fn)
              /\ (\A i \in DOMAIN names : names[i] # fn)
                   => ~remote[fn].allow_squash_merge
                      /\ ~remote[fn].allow_merge_commit
         /\ repos = [i \in DOMAIN names |-> from_repo(remote[names[i]])]
    /\ desired \in BatchDesired
    /\ dry_run \in BOOLEAN
    /\ pc = "loop"
    /\ Fresh
    /\ NoCommand

Next ==
    \/ BulkSkip
    \/ BulkAttempt
    \/ UpdateFetchRaises
    \/ UpdateNoChange
    \/ UpdateDryRun
    \/ UpdateToEdit
    \/ EditOk
    \/ EditFails
    \/ BulkCount
    \/ BulkReturn

Spec == Init /\ [][Next]_vars

\* ------------------------------------- update_repo_settings, called directly
\* The repository the direct calls are made on.
OneRepo == "o/a"

\* A caller invokes update_repo_settings(client, "o/a", **desired, dry_run).
CallUpdate ==
    /\ pc = "idle"
    /\ runs < MaxRuns
    /\ runs' = runs + 1
    /\ cur' = OneRepo
    /\ pc' = "update"
    /\ log' = Append(log, Entry(OneRepo, "attempted"))
    /\ UNCHANGED <<remote, desired, dry_run, repos, idx, success_count,
                   total_count, settings, changes, result, raised, fetches,
                   edits, q>>
    /\ UNCHANGED cli

\* The call returned True or False to its caller.
CallReturns ==
    /\ pc = "ret"
    /\ pc' = "idle"
    /\ UNCHANGED <<remote, desired, dry_run, repos, idx, success_count,
                   total_count, cur, settings, changes, result, raised, log,
                   fetches, edits, runs, q>>
    /\ UNCHANGED cli

\* The call raised and its caller caught the exception.
CallRaised ==
    /\ pc = "raised"
    /\ pc' = "idle"
    /\ raised' = None
    /\ UNCHANGED <<remote, desired, dry_run, repos, idx, success_count,
                   total_count, cur, settings, changes, result, log, fetches,
                   edits, runs, q>>
    /\ UNCHANGED cli

\* One repository in any state of its six merge attributes, any desired
\* configuration, either mode.
InitOne ==
    /\ \E sq \in BOOLEAN, mg \in BOOLEAN, st \in OneTitles, mt \in OneTitles,
          sm \in OneMessages, mm \in OneMessages :
         remote = [fn \in Repos |->
                     IF fn = OneRepo
                     THEN RawRepo(fn, FALSE, FALSE, sq, st, sm, mg, mt, mm, TRUE)
                     ELSE Disabled(fn)]
    /\ \E st \in DesiredTitles, sm \in DesiredMessages,
          mt \in DesiredTitles, mm \in DesiredMessages :
         desired = Desired(st, sm, mt, mm)
    /\ dry_run \in BOOLEAN
    /\ repos = <<>>
    /\ pc = "idle"
    /\ Fresh
    /\ NoCommand

NextOne ==
    \/ CallUpdate
    \/ UpdateFetchRaises
    \/ UpdateNoChange
    \/ UpdateDryRun
    \/ UpdateToEdit
    \/ EditOk
    \/ EditFails
    \/ CallReturns
    \/ CallRaised

SpecOne == InitOne /\ [][NextOne]_vars

\* --------------------------------------------- the two queries of a snapshot
\* Arguments the queries are called with.
QueryValues == CurrentValues \cup {Omitted}

\* settings.needs_squash_update(title, message) is evaluated.
QuerySquash ==
    /\ pc = "query"
    /\ \E t \in QueryValues, m \in QueryValues :
         q' = [kind |-> "squash", args |-> SquashArgs(t, m),
               value |-> needs_squash_update(settings, SquashArgs(t, m).title,
                                             SquashArgs(t, m).message)]
    /\ UNCHANGED <<remote, desired, dry_run, repos, idx, pc, success_count,
                   total_count, cur, settings, changes, result, raised, log,
                   fetches, edits, runs>>
    /\ UNCHANGED cli

\* settings.needs_merge_update(title, message) is evaluated.
QueryMerge ==
    /\ pc = "query"
    /\ \E t \in QueryValues, m \in QueryValues :
         q' = [kind |-> "merge", args |-> MergeArgs(t, m),
               value |-> needs_merge_update(settings, MergeArgs(t, m).title,
                                            MergeArgs(t, m).message)]
    /\ UNCHANGED <<remote, desired, dry_run, repos, idx, pc, success_count,
                   total_count, cur, settings, changes, result, raised, log,
                   fetches, edits, runs>>
    /\ UNCHANGED cli

\* A snapshot of a repository in any state of its six merge attributes.
InitQuery ==
    /\ \E sq \in BOOLEAN, mg \in BOOLEAN,
          st \in CurrentValues, sm \in CurrentValues,
          mt \in CurrentValues, mm \in CurrentValues :
         /\ remote = [fn \in Repos |->
                        IF fn = OneRepo
                        THEN RawRepo(fn, FALSE, FALSE, sq, st, sm, mg, mt, mm,
                                     TRUE)
                        ELSE Disabled(fn)]
         /\ settings = from_repo(remote[OneRepo])
    /\ desired = Desired(None, None, None, None)
    /\ dry_run = TRUE
    /\ repos = <<>>
    /\ pc = "query"
    /\ idx = 1 /\ success_count = 0 /\ total_count = 0 /\ cur = None
    /\ changes = EmptyDict /\ result = None /\ raised = None
    /\ log = <<>> /\ fetches = <<>> /\ edits = <<>> /\ runs = 0 /\ q = NoQuery
    /\ NoCommand

NextQuery ==
    \/ QuerySquash
    \/ QueryMerge

SpecQuery == InitQuery /\ [][NextQuery]_vars

\* ------------------------------------------------------------ credentials
\* subprocess.run(["gh", "auth", "token"], check=True) raised.
GhFails == "<gh fails>"

\* What get_github_token does when every source is exhausted: ValueError.
Raise == "<raise>"

\* str.strip() on the answers of the gh tool that the model uses.
Strip(out) == CASE out = "ghtok\n" -> "ghtok" [] out = "\n" -> "" [] OTHER -> out

\* get_github_token(token): the explicit argument, then GITHUB_TOKEN, then
\* the gh tool; ValueError when none gives a non-empty token.
get_github_token(token, e) ==
    IF Truthy(token) THEN token
    ELSE IF Truthy(e.GITHUB_TOKEN) THEN e.GITHUB_TOKEN
    ELSE IF e.gh # GhFails /\ Strip(e.gh) # "" THEN Strip(e.gh)
    ELSE Raise

\* ---------------------------------------------------------------- catalog
\* The directory of the service: one organization, one user, and the
\* repositories each lists, in listing order.
Organizations == {"o"}
Users == {"u"}

OwnerRepos(owner) == IF owner = "o" THEN <<"o/a", "o/b">> ELSE <<"u/c">>

\* Targets a command is given: the organization, the user, one repository,
\* a name the service does not know.
Targets == {"o", "u", "u/c", "nobody"}

\* "/" in target.
HasSlash(target) == target \in Repos

\* Whether the service resolves the target at all.
Resolves(target) ==
    IF HasSlash(target) THEN target \in Repos
    ELSE target \in Organizations \cup Users

\* fetch_repos_settings(repos): from_repo of each, in order.
fetch_repos_settings(rs, names) ==
    [i \in DOMAIN names |-> from_repo(rs[names[i]])]

\* The filter loop with the fork test dropped.
RECURSIVE Filtered_nofork(_, _, _, _)
Filtered_nofork(rs, names, include_archived, include_forks) ==
    IF names = <<>> THEN <<>>
    ELSE LET repo == rs[Head(names)]
             rest == Filtered_nofork(rs, Tail(names), include_archived,
                                     include_forks)
         IN  IF ~include_archived /\ repo.archived THEN rest
             ELSE <<Head(names)>> \o rest

\* The filter loop of get_target_repos over the listing.
RECURSIVE Filtered(_, _, _, _)
Filtered(rs, names, include_archived, include_forks) ==
    IF names = <<>> THEN <<>>
    ELSE LET repo == rs[Head(names)]
             rest == Filtered(rs, Tail(names), include_archived, include_forks)
         IN  IF ~include_archived /\ repo.archived THEN rest
             ELSE IF ~include_forks /\ repo.fork THEN rest
             ELSE <<Head(names)>> \o rest

\* get_target_repos(client, target, include_archived, include_forks) on a
\* target the service resolves: a single repository is returned unfiltered,
\* an owner's listing is filtered and then fetched.
get_target_repos(rs, target, include_archived, include_forks) ==
    IF HasSlash(target)
    THEN <<from_repo(rs[target])>>
    ELSE fetch_repos_settings(
             rs, Filtered(rs, OwnerRepos(target), include_archived,
                          include_forks))

\* list_org_repos, which main.py imports from ghm.repos and calls with the
\* arguments of get_target_repos: the catalog fetcher of the specification.
list_org_repos(rs, org, include_archived, include_forks) ==
    get_target_repos(rs, org, include_archived, include_forks)

\* ------------------------------------------------------------ the commands
\* any([squash_title, squash_message, merge_title, merge_message]).
AnyField(d) ==
    \/ Truthy(d.squash_title) \/ Truthy(d.squash_message)
    \/ Truthy(d.merge_title) \/ Truthy(d.merge_message)

\* update-merge, lines 108-113: no target field, typer.Exit(1) at once.
CmdCheckFails ==
    /\ pc = "start"
    /\ argv.command = "update-merge"
    /\ ~AnyField(desired)
    /\ exit_code' = 1
    /\ pc' = "exited"
    /\ UNCHANGED <<remote, desired, dry_run, repos, idx, success_count,
                   total_count, cur, settings, changes, result, raised, log,
                   fetches, edits, runs, q, argv, env, github_client, calls>>

\* CmdCheckOk with the any(...) test dropped.
CmdCheckOk_nocheck ==
    /\ pc = "start"
    /\ argv.command = "update-merge"
    /\ pc' = "auth"
    /\ UNCHANGED <<remote, desired, dry_run, repos, idx, success_count,
                   total_count, cur, settings, changes, result, raised, log,
                   fetches, edits, runs, q, argv, env, github_client,
                   exit_code, calls>>

\* update-merge, line 108: a target field is given, the try block is next.
CmdCheckOk ==
    /\ pc = "start"
    /\ argv.command = "update-merge"
    /\ AnyField(desired)
    /\ pc' = "auth"
    /\ UNCHANGED <<remote, desired, dry_run, repos, idx, success_count,
                   total_count, cur, settings, changes, result, raised, log,
                   fetches, edits, runs, q, argv, env, github_client,
                   exit_code, calls>>

\* list and fix-squash check no argument: the try block is entered at once.
CmdEnter ==
    /\ pc = "start"
    /\ argv.command # "update-merge"
    /\ pc' = "auth"
    /\ UNCHANGED <<remote, desired, dry_run, repos, idx, success_count,
                   total_count, cur, settings, changes, result, raised, log,
                   fetches, edits, runs, q, argv, env, github_client,
                   exit_code, calls>>

\* create_github_client(token=token) returns the client.
CmdAuthOk ==
    /\ pc = "auth"
    /\ get_github_token(argv.token, env) # Raise
    /\ github_client' = get_github_token(argv.token, env)
    /\ calls' = calls \cup {"create_github_client"}
    /\ pc' = "fetch"
    /\ UNCHANGED <<remote, desired, dry_run, repos, idx, success_count,
                   total_count, cur, settings, changes, result, raised, log,
                   fetches, edits, runs, q, argv, env, exit_code>>

\* create_github_client raises ValueError: no token found.
CmdAuthFails ==
    /\ pc = "auth"
    /\ get_github_token(argv.token, env) = Raise
    /\ calls' = calls \cup {"create_github_client", "create_github_client raised"}
    /\ raised' = "ValueError"
    /\ pc' = "raised"
    /\ UNCHANGED <<remote, desired, dry_run, repos, idx, success_count,
                   total_count, cur, settings, changes, result, log, fetches,
                   edits, runs, q, argv, env, github_client, exit_code>>

\* list_org_repos returns the snapshots; update-merge and fix-squash go on to
\* bulk_update_repos, list displays them.
CmdCatalog ==
    /\ pc = "fetch"
    /\ Resolves(argv.target)
    /\ repos' = list_org_repos(remote, argv.target, argv.include_archived,
                               argv.include_forks)
    /\ calls' = calls \cup {"list_org_repos"}
    /\ pc' = IF argv.command = "list" THEN "shown" ELSE "loop"
    /\ UNCHANGED <<remote, desired, dry_run, idx, success_count, total_count,
                   cur, settings, changes, result, raised, log, fetches, edits,
                   runs, q, argv, env, github_client, exit_code>>

\* list_org_repos raises: the target is no organization, user or repository,
\* or a call of the listing fails.
CmdCatalogRaises ==
    /\ pc = "fetch"
    /\ \E e \in ErrorClasses : raised' = e
    /\ calls' = calls \cup {"list_org_repos", "list_org_repos raised"}
    /\ pc' = "raised"
    /\ UNCHANGED <<remote, desired, dry_run, repos, idx, success_count,
                   total_count, cur, settings, changes, result, log, fetches,
                   edits, runs, q, argv, env, github_client, exit_code>>

\* except Exception: print the error, typer.Exit(1).
CmdExcept ==
    /\ pc = "raised"
    /\ exit_code' = 1
    /\ pc' = "exited"
    /\ UNCHANGED <<remote, desired, dry_run, repos, idx, success_count,
                   total_count, cur, settings, changes, result, raised, log,
                   fetches, edits, runs, q, argv, env, github_client, calls>>

\* The summary (or the table) is printed, the client closed; the command
\* returns and the process exits 0.
CmdSummary ==
    /\ pc \in {"done", "shown"}
    /\ calls' = calls \cup {"close"}
    /\ exit_code' = 0
    /\ pc' = "exited"
    /\ UNCHANGED <<remote, desired, dry_run, repos, idx, success_count,
                   total_count, cur, settings, changes, result, raised, log,
                   fetches, edits, runs, q, argv, env, github_client>>

\* Repository states the commands are run on.
CliProfiles(fn) ==
    BatchProfiles(fn) \cup
    { RawRepo(fn, TRUE, FALSE, TRUE, "COMMIT_OR_PR_TITLE", "PR_BODY",
              FALSE, None, None, FALSE) }

\* Where a token can come from: the option, the variable, the tool, nowhere.
TokenSources ==
    { [token |-> "tok", GITHUB_TOKEN |-> None, gh |-> GhFails],
      [token |-> None, GITHUB_TOKEN |-> "envtok", gh |-> GhFails],
      [token |-> "", GITHUB_TOKEN |-> "", gh |-> "ghtok\n"],
      [token |-> None, GITHUB_TOKEN |-> None, gh |-> "\n"] }

\* The command lines: update-merge with any desired configuration, fix-squash
\* (squash_title="PR_TITLE", squash_message="PR_BODY"), list.
Invocations ==
    { [command |-> "update-merge", desired |-> d, dry_run |-> b] :
        d \in BatchDesired, b \in BOOLEAN }
    \cup
    { [command |-> "fix-squash",
       desired |-> Desired("PR_TITLE", "PR_BODY", None, None), dry_run |-> b] :
        b \in BOOLEAN }
    \cup
    { [command |-> "list", desired |-> Desired(None, None, None, None),
       dry_run |-> TRUE] }

\* A command starts.  The user's one repository has squash enabled, so that
\* the single-repository target always reaches update_repo_settings.
InitCli ==
    /\ remote \in [Repos -> UNION { CliProfiles(fn) : fn \in Repos }]
    /\ \A fn \in Repos : remote[fn] \in CliProfiles(fn)
    /\ remote["u/c"] \in BatchProfiles("u/c")
    /\ remote["u/c"].allow_squash_merge
    /\ \E inv \in Invocations, src \in TokenSources, t \in Targets,
          ia \in BOOLEAN, if \in BOOLEAN :
         /\ desired = inv.desired
         /\ dry_run = inv.dry_run
         /\ argv = [command |-> inv.command, token |-> src.token, target |-> t,
                    include_archived |-> ia, include_forks |-> if]
         /\ env = [GITHUB_TOKEN |-> src.GITHUB_TOKEN, gh |-> src.gh]
    /\ repos = <<>>
    /\ pc = "start"
    /\ Fresh
    /\ github_client = None
    /\ exit_code = None
    /\ calls = {}

NextCli ==
    \/ CmdCheckFails
    \/ CmdCheckOk
    \/ CmdEnter
    \/ CmdAuthOk
    \/ CmdAuthFails
    \/ CmdCatalog
    \/ CmdCatalogRaises
    \/ CmdExcept
    \/ CmdSummary
    \/ BulkSkip
    \/ BulkAttempt
    \/ UpdateFetchRaises
    \/ UpdateNoChange
    \/ UpdateDryRun
    \/ UpdateToEdit
    \/ EditOk
    \/ EditFails
    \/ BulkCount
    \/ BulkReturn

SpecCli == InitCli /\ [][NextCli]_vars

\* ================================================================== claims
\* What the claims call a desired field that is present: given and not empty.
Present(v) == v # None /\ v # ""

\* The full names of the input list are pairwise distinct.
DistinctNames ==
    \A i, j \in DOMAIN repos : repos[i].full_name = repos[j].full_name => i = j

\* C1 as stated: a dry run never calls the write endpoint, and an apply run
\* calls it at most once per full name, whatever the input list is.
C1_AsStated ==
    /\ dry_run => edits = <<>>
    /\ \A i, j \in DOMAIN edits :
         edits[i].full_name = edits[j].full_name => i = j

\* C1, amended: a dry run never calls the write endpoint; an apply run calls
\* it at most once per entry of the input list, hence at most once per full
\* name when the list names each repository once.
C1_WritesPerEntry ==
    /\ dry_run => edits = <<>>
    /\ \A i, j \in DOMAIN edits : edits[i].entry = edits[j].entry => i = j
    /\ \A i \in DOMAIN edits :
         /\ edits[i].entry \in DOMAIN log
         /\ edits[i].full_name = log[edits[i].entry].full_name
    /\ DistinctNames =>
         \A i, j \in DOMAIN edits :
           edits[i].full_name = edits[j].full_name => i = j

\* C1 witness: an apply run has written the same repository twice, once for
\* each of two entries of the list.
C1_Witness ==
    /\ pc = "done"
    /\ ~dry_run
    /\ \E i, j \in DOMAIN edits :
         /\ i < j
         /\ edits[i].full_name = edits[j].full_name
         /\ edits[i].entry # edits[j].entry

\* C2 as stated: no per-repository failure, of the re-fetch or of the write,
\* aborts the batch; no error leaves bulk_update_repos.
C2_NoErrorLeavesBatch ==
    /\ raised = None
    /\ \A i \in DOMAIN log : log[i].outcome # "raised"

\* The entries of the list the loop has taken up so far.
Processed == IF pc \in {"update", "edit", "ret", "raised"} THEN idx ELSE idx - 1

\* C5: at every point of a batch run and in the returned pair,
\* 0 <= succeeded <= attempted <= number of input snapshots; each counter
\* only grows, by at most one per processed repository.
C5_Counters ==
    /\ [](/\ 0 <= success_count
          /\ success_count <= total_count
          /\ total_count <= Processed
          /\ Processed <= Len(repos)
          /\ Processed = Len(log))
    /\ [][/\ success_count' \in {success_count, success_count + 1}
          /\ total_count' \in {total_count, total_count + 1}
          /\ total_count' # total_count => Len(log') = Len(log) + 1
          /\ success_count' # success_count => idx' = idx + 1]_vars

\* C5 witness: a batch has returned with 0 < succeeded < attempted < length.
C5_Witness ==
    /\ pc = "done"
    /\ 0 < success_count
    /\ success_count < total_count
    /\ total_count < Len(repos)

\* A desired field of an enabled method of snapshot s is present.
Applicable(s) ==
    \/ s.allow_squash_merge
       /\ (Present(desired.squash_title) \/ Present(desired.squash_message))
    \/ s.allow_merge_commit
       /\ (Present(desired.merge_title) \/ Present(desired.merge_message))

\* C6: a list entry is skipped exactly when no present desired field belongs
\* to a method enabled on its snapshot; a skipped entry does not count as
\* attempted, is never re-fetched and never written; every other entry
\* counts as attempted exactly once.
C6_SkipRule ==
    /\ Len(log) <= Len(repos)
    /\ \A i \in DOMAIN log :
         /\ log[i].full_name = repos[i].full_name
         /\ log[i].outcome = "skipped" <=> ~Applicable(repos[i])
         /\ log[i].outcome = "skipped" =>
              /\ \A k \in DOMAIN fetches : fetches[k].entry # i
              /\ \A k \in DOMAIN edits : edits[k].entry # i
    /\ total_count = Cardinality({i \in DOMAIN log : log[i].outcome # "skipped"})

\* C6 witness: a returned batch skipped a snapshot with squash enabled (only
\* merge-commit fields are desired) and attempted another snapshot.
C6_Witness ==
    /\ pc = "done"
    /\ \E i, j \in DOMAIN log :
         /\ log[i].outcome = "skipped"
         /\ repos[i].allow_squash_merge
         /\ log[j].outcome # "skipped"
         /\ total_count = 1

\* The entries update_repo_settings has answered for.
Answered == {i \in DOMAIN log : log[i].outcome \in
                 {"nochange", "dryrun", "updated", "failed"}}

\* The answered entries bulk_update_repos has already counted.
Tallied == {i \in Answered : ~(i = Len(log) /\ pc = "ret")}

\* The write of entry i succeeded.
WriteOk(i) == \E k \in DOMAIN edits : edits[k].entry = i /\ edits[k].ok

\* The write of entry i failed.
WriteFailed(i) == \E k \in DOMAIN edits : edits[k].entry = i /\ ~edits[k].ok

\* Succeeded is incremented for an attempted entry if and only if the
\* reconcile reports success, and success is exactly: empty ChangeSet,
\* dry run with a non-empty ChangeSet, or a write that returned without error.
C7_CountRule ==
    /\ \A i \in Answered :
         /\ log[i].result = TRUE <=>
              \/ DOMAIN log[i].changes = {}
              \/ DOMAIN log[i].changes # {} /\ dry_run
              \/ DOMAIN log[i].changes # {} /\ ~dry_run /\ WriteOk(i)
         /\ log[i].result = FALSE <=> WriteFailed(i)
    /\ success_count = Cardinality({i \in Tallied : log[i].result = TRUE})
    /\ total_count = Cardinality({i \in DOMAIN log : log[i].outcome # "skipped"})

\* Snapshot s has a present desired field of an enabled method whose current
\* value differs.
NeedsChange(s) ==
    \/ s.allow_squash_merge /\ Present(desired.squash_title)
       /\ s.squash_merge_commit_title # desired.squash_title
    \/ s.allow_squash_merge /\ Present(desired.squash_message)
       /\ s.squash_merge_commit_message # desired.squash_message
    \/ s.allow_merge_commit /\ Present(desired.merge_title)
       /\ s.merge_commit_title # desired.merge_title
    \/ s.allow_merge_commit /\ Present(desired.merge_message)
       /\ s.merge_commit_message # desired.merge_message

\* Scenario D: three repositories, one needing a change, one already matching
\* the desired values, one with both methods disabled.
ScenarioD ==
    /\ Len(repos) = 3
    /\ DistinctNames
    /\ \E i, j, k \in DOMAIN repos :
         /\ NeedsChange(repos[i])
         /\ Applicable(repos[j]) /\ ~NeedsChange(repos[j])
         /\ ~repos[k].allow_squash_merge /\ ~repos[k].allow_merge_commit

\* C7 as stated: the count rule, and scenario D yields attempted = 2 and
\* succeeded = 2 regardless of the dry-run flag.
C7_AsStated ==
    /\ C7_CountRule
    /\ (pc = "done" /\ ScenarioD) => (total_count = 2 /\ success_count = 2)

\* C7, amended: the count rule, and a returned batch of scenario D has
\* attempted = 2 and succeeded = 2 less the writes that failed (succeeded = 2
\* in a dry run and whenever the one write succeeds).
C7_CountRuleAndScenario ==
    /\ C7_CountRule
    /\ (pc = "done" /\ ScenarioD) =>
         /\ total_count = 2
         /\ success_count = 2 - Cardinality({i \in DOMAIN log : WriteFailed(i)})
         /\ dry_run => success_count = 2

\* C7 witness: an apply run of scenario D has returned with attempted = 2
\* and succeeded = 1, its one write having failed with a not-found error.
C7_Witness ==
    /\ pc = "done"
    /\ ScenarioD
    /\ ~dry_run
    /\ total_count = 2
    /\ success_count = 1
    /\ \E k \in DOMAIN edits :
         ~edits[k].ok /\ edits[k].message = ErrorMessage("404")

\* The desired field and the enabled flag that govern a key of the ChangeSet.
DesiredOf(k) ==
    CASE k = "squash_merge_commit_title" -> desired.squash_title
      [] k = "squash_merge_commit_message" -> desired.squash_message
      [] k = "merge_commit_title" -> desired.merge_title
      [] OTHER -> desired.merge_message

EnabledFor(s, k) ==
    IF k \in {"squash_merge_commit_title", "squash_merge_commit_message"}
    THEN s.allow_squash_merge
    ELSE s.allow_merge_commit

\* C3: the ChangeSet of a single-repository reconcile holds field -> desired
\* value for exactly the desired fields that are present, whose method is
\* enabled in the re-fetched settings and whose re-fetched value differs; so
\* never a field of a disabled method, and nothing when nothing is desired.
C3_ChangeSet ==
    pc \in {"edit", "ret"} =>
      /\ pc = "edit" => settings = from_repo(remote[cur])
      /\ DOMAIN changes =
           {k \in FormatKeys : /\ Present(DesiredOf(k))
                               /\ EnabledFor(settings, k)
                               /\ settings[k] # DesiredOf(k)}
      /\ \A k \in DOMAIN changes :
           changes[k] = DesiredOf(k) /\ EnabledFor(settings, k)
      /\ (\A k \in FormatKeys : DesiredOf(k) = None) => DOMAIN changes = {}
      /\ log[Len(log)].outcome # "attempted" => log[Len(log)].changes = changes

\* C3 witness: all four fields are desired, squash is enabled and merge-commit
\* is not, the squash message already matches and the merge title differs:
\* the ChangeSet about to be written holds the squash title alone.
C3_Witness ==
    /\ pc = "edit"
    /\ \A k \in FormatKeys : Present(DesiredOf(k))
    /\ settings.allow_squash_merge
    /\ ~settings.allow_merge_commit
    /\ settings.merge_commit_title # desired.merge_title
    /\ DOMAIN changes = {"squash_merge_commit_title"}

\* Run j of update_repo_settings is over.
Over(j) == j < Len(log) \/ pc = "idle"

\* Run i of update_repo_settings returned True.
ReportedSuccess(i) ==
    log[i].outcome \in {"nochange", "dryrun", "updated"} /\ log[i].result = TRUE

\* C4 as stated: of two apply-mode runs on the same repository with the same
\* desired configuration and no external change in between, both of which
\* returned, the second computes an empty ChangeSet, writes nothing and
\* reports success.
C4_AsStated ==
    ~dry_run =>
      \A j \in DOMAIN log :
        (j >= 2 /\ Over(j) /\ \A i \in 1..j : log[i].outcome # "raised") =>
          /\ log[j].outcome = "nochange"
          /\ ReportedSuccess(j)
          /\ \A k \in DOMAIN edits : edits[k].entry # j

\* C4, amended: if moreover the earlier run reported success, the later run
\* writes nothing and, when it returns, has computed an empty ChangeSet and
\* reports success.
C4_Idempotent ==
    ~dry_run =>
      \A i, j \in DOMAIN log :
        (i < j /\ ReportedSuccess(i)) =>
          /\ \A k \in DOMAIN edits : edits[k].entry # j
          /\ log[j].outcome \in {"attempted", "raised", "nochange"}
          /\ ~(j = Len(log) /\ pc = "edit")
          /\ log[j].outcome = "nochange" =>
               ReportedSuccess(j) /\ DOMAIN log[j].changes = {}

\* C4 witness: the first apply-mode run wrote the repository, the second
\* found nothing to change and returned True.
C4_Witness ==
    /\ ~dry_run
    /\ pc = "idle"
    /\ Len(log) = 2
    /\ log[1].outcome = "updated"
    /\ log[2].outcome = "nochange"
    /\ Len(edits) = 1

\* C10: needs_squash_update is false whenever squash is disabled; when squash
\* is enabled it is false exactly when the current title equals the desired
\* title and the current message equals the desired message.
\* needs_merge_update does the same with the merge-commit flag and fields.
C10_Needs ==
    q # NoQuery =>
      /\ q.kind = "squash" =>
           /\ ~settings.allow_squash_merge => q.value = FALSE
           /\ settings.allow_squash_merge =>
                (q.value = FALSE <=>
                   /\ settings.squash_merge_commit_title = q.args.title
                   /\ settings.squash_merge_commit_message = q.args.message)
      /\ q.kind = "merge" =>
           /\ ~settings.allow_merge_commit => q.value = FALSE
           /\ settings.allow_merge_commit =>
                (q.value = FALSE <=>
                   /\ settings.merge_commit_title = q.args.title
                   /\ settings.merge_commit_message = q.args.message)

\* C10 witness: squash is disabled, both current squash fields differ from
\* the arguments, and needs_squash_update answered False.
C10_Witness ==
    /\ q # NoQuery
    /\ q.kind = "squash"
    /\ ~settings.allow_squash_merge
    /\ settings.squash_merge_commit_title # q.args.title
    /\ settings.squash_merge_commit_message # q.args.message
    /\ q.value = FALSE

\* The token lookup failed (configuration error), or the catalog fetch did
\* (resolution error, or an unexpected failure of the listing).
ConfigurationOrResolutionError ==
    \/ "create_github_client raised" \in calls
    \/ "list_org_repos raised" \in calls

C9_NoFieldExitsFirst ==
    (argv.command = "update-merge" /\ ~AnyField(desired) /\ pc # "start") =>
      /\ pc = "exited"
      /\ exit_code = 1
      /\ calls = {}
      /\ github_client = None
      /\ repos = <<>>
      /\ log = <<>>
      /\ fetches = <<>>
      /\ edits = <<>>

\* C9 witness: update-merge was started with no option given and has exited 1.
C9_Witness ==
    /\ argv.command = "update-merge"
    /\ \A k \in FormatKeys : DesiredOf(k) = None
    /\ pc = "exited"
    /\ exit_code = 1

\* ------------------------------------------- get_target_repos, called directly
\* get_target_repos(client, target, include_archived, include_forks) returns.
GetTargetRepos ==
    /\ pc = "catalog"
    /\ Resolves(argv.target)
    /\ repos' = get_target_repos(remote, argv.target, argv.include_archived,
                                 argv.include_forks)
    /\ calls' = calls \cup {"get_target_repos"}
    /\ pc' = "fetched"
    /\ UNCHANGED <<remote, desired, dry_run, idx, success_count, total_count,
                   cur, settings, changes, result, raised, log, fetches, edits,
                   runs, q, argv, env, github_client, exit_code>>

\* get_target_repos raises: get_repo fails, or get_organization and then
\* get_user fail, or the listing does.
GetTargetReposRaises ==
    /\ pc = "catalog"
    /\ \E e \in ErrorClasses : raised' = e
    /\ calls' = calls \cup {"get_target_repos", "get_target_repos raised"}
    /\ pc' = "raised"
    /\ UNCHANGED <<remote, desired, dry_run, repos, idx, success_count,
                   total_count, cur, settings, changes, result, log, fetches,
                   edits, runs, q, argv, env, github_client, exit_code>>

\* Every repository is archived or not and a fork or not, with squash enabled;
\* any target, any setting of the two include flags.
InitCatalog ==
    /\ \E arch \in [Repos -> BOOLEAN], frk \in [Repos -> BOOLEAN] :
         remote = [fn \in Repos |->
                     RawRepo(fn, arch[fn], frk[fn], TRUE, "COMMIT_OR_PR_TITLE",
                             "PR_BODY", FALSE, None, None, TRUE)]
    /\ \E t \in Targets, ia \in BOOLEAN, if \in BOOLEAN :
         argv = [command |-> "get_target_repos", token |-> None, target |-> t,
                 include_archived |-> ia, include_forks |-> if]
    /\ desired = Desired(None, None, None, None)
    /\ dry_run = TRUE
    /\ repos = <<>>
    /\ pc = "catalog"
    /\ Fresh
    /\ env = None
    /\ github_client = "tok"
    /\ exit_code = None
    /\ calls = {}

NextCatalog ==
    \/ GetTargetRepos
    \/ GetTargetReposRaises

SpecCatalog == InitCatalog /\ [][NextCatalog]_vars

\* ------------------------------------------------------------ claim C11
\* The repositories of the target in listing order: the one repository of an
\* owner/name target, the listing of an organization or a user.
TargetListing ==
    IF argv.target \in Repos THEN <<argv.target>> ELSE OwnerRepos(argv.target)

\* Repository fn passes the archived and fork filters of the invocation.
PassesFilters(fn) ==
    /\ remote[fn].archived => argv.include_archived
    /\ remote[fn].fork => argv.include_forks

\* The returned list holds exactly the repositories of the listing that pass
\* the filters, each once, in listing order, each as its snapshot.
FilteredCatalog ==
    /\ \A i \in DOMAIN repos :
         /\ PassesFilters(repos[i].full_name)
         /\ repos[i] = from_repo(remote[repos[i].full_name])
         /\ \E k \in DOMAIN TargetListing : TargetListing[k] = repos[i].full_name
    /\ \A k \in DOMAIN TargetListing :
         PassesFilters(TargetListing[k]) =>
           Cardinality({i \in DOMAIN repos :
                          repos[i].full_name = TargetListing[k]}) = 1
    /\ \A i, j \in DOMAIN repos :
         i < j => \E k, l \in DOMAIN TargetListing :
                    /\ k < l
                    /\ TargetListing[k] = repos[i].full_name
                    /\ TargetListing[l] = repos[j].full_name

\* C11 as stated: for every kind of target (organization, user, single
\* repository) the returned list holds no archived repository unless
\* include_archived, no fork unless include_forks, and every other repository
\* of the target exactly once, in listing order.
C11_AsStated == pc = "fetched" => FilteredCatalog

\* C11, amended: that holds for an organization or user target; for a single
\* owner/name target the list is that one repository's snapshot, whatever
\* the archived and fork flags and the include options are.
C11_FiltersOwnerListings ==
    pc = "fetched" =>
      IF argv.target \in Repos
      THEN repos = <<from_repo(remote[argv.target])>>
      ELSE FilteredCatalog

\* C11 witness: the organization's listing was fetched without the include
\* options; its first repository is a fork, its second is kept.
C11_Witness ==
    /\ pc = "fetched"
    /\ argv.target = "o"
    /\ ~argv.include_archived /\ ~argv.include_forks
    /\ remote["o/a"].fork /\ ~remote["o/a"].archived
    /\ Len(repos) = 1
    /\ repos[1].full_name = "o/b"

\* ------------------------------------------------------------ claim C12
\* The fields of a repository that are no format field: its identity, the
\* archived and fork flags and the three enabled flags.
FrameFields == {"name", "full_name", "archived", "fork", "allow_squash_merge",
                "allow_merge_commit", "allow_rebase_merge"}

\* This step is the apply-mode update call: not a dry run, repo.edit on the
\* current repository answered successfully, and the remote state differs
\* from the one before exactly by the payload.
ApplyModeUpdate ==
    /\ pc = "edit"
    /\ ~dry_run
    /\ Len(edits') = Len(edits) + 1
    /\ edits'[Len(edits')].ok
    /\ edits'[Len(edits')].full_name = cur
    /\ edits'[Len(edits')].payload = changes
    /\ \A fn \in Repos \ {cur} : remote'[fn] = remote[fn]
    /\ \A f \in DOMAIN remote[cur] :
         remote'[cur][f] = IF f \in DOMAIN changes THEN changes[f]
                           ELSE remote[cur][f]

\* C12: the remote state changes only in the apply-mode update call, whose
\* payload has only keys among the four format fields; every payload ever
\* sent has only such keys; identity, archived, fork, rebase and enabled
\* flags of every repository are the same after every step; the catalog
\* fetch, the re-fetch and a dry run change nothing.
C12_Frame ==
    [][ /\ DOMAIN remote' = DOMAIN remote
        /\ \A fn \in Repos :
             /\ DOMAIN remote'[fn] = DOMAIN remote[fn]
             /\ \A f \in FrameFields : remote'[fn][f] = remote[fn][f]
        /\ remote' # remote => ApplyModeUpdate
        /\ \A i \in DOMAIN edits' : DOMAIN edits'[i].payload \subseteq FormatKeys
        /\ Len(edits') > Len(edits) => ~dry_run
        /\ (calls' # calls \/ fetches' # fetches \/ dry_run) => remote' = remote
      ]_vars

\* C12 witness: a command fetched the catalog and its apply-mode update call
\* has just changed a format field of the current repository.
C12_Witness ==
    /\ "list_org_repos" \in calls
    /\ pc = "ret"
    /\ ~dry_run
    /\ edits # <<>>
    /\ edits[Len(edits)].ok
    /\ edits[Len(edits)].entry = Len(log)
    /\ \E f \in DOMAIN changes :
         /\ settings[f] # changes[f]
         /\ remote[cur][f] = changes[f]

\* ------------------------- the batch under external changes of the service
\* The repositories the raced batch is run on.
RaceRepos == {"o/a", "o/b"}

\* Somebody else enables or disables a merge method of a repository of the
\* list after its snapshot was taken and before the loop reaches it.
ExternalChange ==
    /\ pc = "loop"
    /\ \E i \in idx..Len(repos) :
         \E flag \in {"allow_squash_merge", "allow_merge_commit"} :
           remote' = [remote EXCEPT ![repos[i].full_name][flag] = ~@]
    /\ UNCHANGED <<desired, dry_run, repos, idx, pc, success_count,
                   total_count, cur, settings, changes, result, raised, log,
                   fetches, edits, runs, q>>
    /\ UNCHANGED cli

\* bulk_update_repos is called with the catalog of snapshots, each repository
\* once; the snapshots are the service's state at the time of the catalog.
InitRace ==
    /\ \E names \in Lists(MaxLen) :
         /\ \A i \in DOMAIN names : names[i] \in RaceRepos
         /\ \A i, j \in DOMAIN names : names[i] = names[j] => i = j
         /\ remote \in [Repos -> UNION { BatchProfiles(fn) : fn \in Repos }]
         /\ \A fn \in Repos :
              /\ remote[fn] \in BatchProfiles(fn)
              /\ (\A i \in DOMAIN names : names[i] # fn)
                   => remote[fn] = Disabled(fn)
         /\ repos = [i \in DOMAIN names |-> from_repo(remote[names[i]])]
    /\ desired \in BatchDesired
    /\ dry_run \in BOOLEAN
    /\ pc = "loop"
    /\ Fresh
    /\ NoCommand

NextRace ==
    \/ ExternalChange
    \/ Next

SpecRace == InitRace /\ [][NextRace]_vars

\* ------------------------------------------------------------ claim C13
\* The entry the loop is at has been re-fetched: settings is its re-fetched
\* state.
Refetched == pc \in {"edit", "ret"}

\* The skip/attempt decision of every entry is the one its snapshot gives.
DecidedFromSnapshot ==
    \A i \in DOMAIN log :
      /\ log[i].full_name = repos[i].full_name
      /\ log[i].outcome = "skipped" <=> ~Applicable(repos[i])

\* The ChangeSet of the current entry is the one its re-fetched state gives.
ChangeSetFromRefetch ==
    Refetched =>
      /\ DOMAIN changes =
           {k \in FormatKeys : /\ Present(DesiredOf(k))
                               /\ EnabledFor(settings, k)
                               /\ settings[k] # DesiredOf(k)}
      /\ \A k \in DOMAIN changes : changes[k] = DesiredOf(k)

\* The applicable methods of the current entry's snapshot are all disabled in
\* its re-fetched state.
DisabledSince ==
    /\ Refetched
    /\ Applicable(repos[idx])
    /\ ~Applicable(settings)

\* C13: under external changes between the catalog and a repository's
\* reconcile step, the skip/attempt decision follows the snapshot alone and
\* the ChangeSet the re-fetched state alone. An entry whose applicable method
\* was disabled since the snapshot, as its re-fetch shows, is attempted,
\* answers success without a write and is counted as succeeded; an entry whose snapshot has no
\* applicable method is skipped, never re-fetched and never written, even
\* when a method was enabled since; every field of a payload written belongs
\* to a method enabled in the re-fetched state.
C13_SnapshotDecidesRefetchDiffs ==
    /\ [](/\ DecidedFromSnapshot
          /\ ChangeSetFromRefetch
          /\ DisabledSince =>
               /\ pc = "ret"
               /\ log[idx].outcome = "nochange"
               /\ result = TRUE
               /\ changes = EmptyDict
               /\ \A k \in DOMAIN edits : edits[k].entry # idx
               /\ total_count =
                    Cardinality({i \in 1..idx : Applicable(repos[i])})
          /\ \A i \in DOMAIN log :
               ~Applicable(repos[i]) =>
                 /\ \A k \in DOMAIN fetches : fetches[k].entry # i
                 /\ \A k \in DOMAIN edits :
                      /\ edits[k].entry # i
                      /\ edits[k].full_name # repos[i].full_name
          /\ \A k \in DOMAIN edits :
               edits[k].entry = Len(log) =>
                 /\ edits[k].payload = changes
                 /\ \A f \in DOMAIN changes : EnabledFor(settings, f))
    /\ [][DisabledSince => /\ success_count' = success_count + 1
                           /\ total_count' = total_count
                           /\ edits' = edits
                           /\ remote' = remote]_vars

\* C13 witness: a returned batch of two. The first snapshot had squash
\* enabled, squash was disabled before the re-fetch: attempted, succeeded, not
\* written. The second snapshot had nothing applicable, squash is enabled
\* now: skipped, not written.
C13_Witness ==
    /\ pc = "done"
    /\ Len(repos) = 2
    /\ Present(desired.squash_title)
    /\ repos[1].allow_squash_merge
    /\ ~remote[repos[1].full_name].allow_squash_merge
    /\ log[1].outcome = "nochange"
    /\ ~repos[2].allow_squash_merge
    /\ remote[repos[2].full_name].allow_squash_merge
    /\ log[2].outcome = "skipped"
    /\ success_count = 1
    /\ total_count = 1
    /\ edits = <<>>

====
